---- MODULE Spec2Model ----
(***************************************************************************)
(* Model of the watch-stream client in                                     *)
(* packages/firestore/scripts/bloom_filter_watch_test.ts: the TargetState  *)
(* state machine and the WatchStream lifecycle and message dispatch.       *)
(*                                                                         *)
(* A second part models the BloomFilter value type that the unit tests in  *)
(* the same file exercise.                                                 *)
(*                                                                         *)
(* The specifications share the variables:                                 *)
(*   SpecTS        drives one TargetState object directly with its five    *)
(*                 events;                                                 *)
(*   Spec          drives the lifecycle of one WatchStream: calls of       *)
(*                 open(), close() and addTarget(), and the on-open and    *)
(*                 on-close signals of the transport;                      *)
(*   SpecDispatch  drives a WatchStream whose open() has returned with     *)
(*                 addTarget() and inbound messages;                       *)
(*   SpecLive      is the lifecycle with the fairness of its scheduling;   *)
(*   SpecBF        constructs a BloomFilter and queries it.                *)
(* The handlers of inbound messages read and write _targets only, and the  *)
(* lifecycle methods touch _targets only by registering a fresh            *)
(* TargetState, so the two halves are explored separately.                 *)
(***************************************************************************)
EXTENDS Integers, Sequences, FiniteSets, TLC

VARIABLES
    ts,               \* SpecTS: a TargetState object
    _stream,          \* WatchStream._stream: 0 is null, n > 0 is channels[n]
    _closed,          \* WatchStream._closed
    _closedDeferred,  \* WatchStream._closedDeferred
    _targets,         \* WatchStream._targets, a Map in insertion order
    channels,         \* the Stream objects openStream() has handed out
    openCalls,        \* number of open() calls made so far
    openCall,         \* the open() call that reached its await
    closeCall,        \* the close() call that reached its await
    bloomFilter,      \* SpecBF: the BloomFilter the last `new' returned
    last              \* the last call or event, its inputs and its outcome

vars == <<ts, _stream, _closed, _closedDeferred, _targets, channels,
          openCalls, openCall, closeCall, bloomFilter, last>>

wsVars == <<_stream, _closed, _closedDeferred, _targets, channels, openCalls,
            openCall, closeCall>>

----------------------------------------------------------------------------
(* Bounds *)

MaxToken == 4         \* resume tokens are 1..MaxToken
MaxTargetId == 2      \* target identifiers are 1..MaxTargetId
MaxIds == 2           \* longest targetIds list of a targetChange
MaxMsgToken == 2      \* resume tokens of inbound messages are 1..MaxMsgToken
MaxErr == 2           \* transport errors are 1..MaxErr
MaxOpenCalls == 2     \* open() calls in one behaviour
MaxBytes == 2         \* longest bitmap of a BloomFilter, in bytes
MaxHashCount == 2     \* largest hash count of a BloomFilter
HashBits == 3         \* width of a hash value in bits (64 in the program)

Null == 0             \* null / absent resume token
Tokens == 1 .. MaxToken
TargetIds == 1 .. MaxTargetId
Errors == 1 .. MaxErr
MsgTokens == 1 .. MaxMsgToken
\* Identifiers a targetChange can name; the last one is never registered.
MsgTargetIds == 1 .. MaxTargetId + 1

----------------------------------------------------------------------------
(* class BloomFilter: the value type the unit tests construct and query    *)

BitsPerByte == 8
\* Byte values of the bitmaps: a cleared byte, a byte with one bit, a byte
\* with every bit set.
ByteValues == {0, 1, 255}
Bitmaps == UNION {[1 .. n -> ByteValues] : n \in 0 .. MaxBytes}
\* The padding and hash count arguments, valid and invalid.
Paddings == -1 .. 8
HashCounts == -1 .. MaxHashCount
\* A hash value is a signed two's-complement integer of HashBits bits.
HashValues == -(2 ^ (HashBits - 1)) .. (2 ^ (HashBits - 1)) - 1

NoBloomFilterError == [name |-> "none", value |-> 0]
InvalidPadding(padding) == [name |-> "InvalidPadding", value |-> padding]
InvalidHashCount(hashCount) ==
    [name |-> "InvalidHashCount", value |-> hashCount]

\* The constructor with the hash count validated before the padding.
BloomFilterError_hashCountFirst(bits, padding, hashCount) ==
    IF Len(bits) = 0
    THEN IF hashCount < 0 THEN InvalidHashCount(hashCount)
         ELSE IF padding # 0 THEN InvalidPadding(padding)
         ELSE NoBloomFilterError
    ELSE IF hashCount < 1 THEN InvalidHashCount(hashCount)
         ELSE IF padding < 0 \/ padding > 7 THEN InvalidPadding(padding)
         ELSE NoBloomFilterError

\* The validation of the constructor, in its order: the error that
\* `new BloomFilter(bits, padding, hashCount)' throws.
BloomFilterError(bits, padding, hashCount) ==
    IF Len(bits) = 0
    THEN IF padding # 0 THEN InvalidPadding(padding)
         ELSE IF hashCount < 0 THEN InvalidHashCount(hashCount)
         ELSE NoBloomFilterError
    ELSE IF padding < 0 \/ padding > 7 THEN InvalidPadding(padding)
         ELSE IF hashCount < 1 THEN InvalidHashCount(hashCount)
         ELSE NoBloomFilterError

\* bitCount that counts the padding bits too.
bitCount_ignoresPadding(bits, padding) == Len(bits) * BitsPerByte

\* The derived field bitCount.
bitCount(bits, padding) ==
    IF Len(bits) = 0 THEN 0 ELSE Len(bits) * BitsPerByte - padding

\* No instance: nothing was constructed, or the constructor threw.
NoBloomFilter ==
    [constructed |-> FALSE, bits |-> <<>>, padding |-> 0, hashCount |-> 0,
     bitCount |-> 0]

NewBloomFilter(bits, padding, hashCount) ==
    [constructed |-> TRUE, bits |-> bits, padding |-> padding,
     hashCount |-> hashCount, bitCount |-> bitCount(bits, padding)]

\* Two's-complement wrap of an integer to HashBits bits.
Wrap(x) ==
    ((x + 2 ^ (HashBits - 1)) % (2 ^ HashBits)) - 2 ^ (HashBits - 1)

\* The remainder that takes the sign of the dividend.
Rem(a, n) == IF a >= 0 THEN a % n ELSE -((-a) % n)

\* The probe position without the normalisation of a negative remainder.
probe_notNormalized(h1, h2, i, n) == Rem(Wrap(h1 + i * h2), n)

\* The i-th probe position in a filter of n > 0 bits:
\* (h1 + i*h2) mod n, a negative remainder brought into [0, n).
probe(h1, h2, i, n) ==
    LET r == Rem(Wrap(h1 + i * h2), n)
    IN  IF r < 0 THEN r + n ELSE r

\* Bit p of the bitmap: byte p / 8, bit p % 8 of it.  A position outside
\* the bitmap holds no set bit.
isBitSet(bf, p) ==
    /\ p \in 0 .. bf.bitCount - 1
    /\ (bf.bits[(p \div BitsPerByte) + 1] \div (2 ^ (p % BitsPerByte))) % 2 = 1

\* The probe positions of a key whose hash is (h1, h2).
probes(bf, h1, h2) ==
    IF bf.bitCount = 0 THEN <<>>
    ELSE [k \in 1 .. bf.hashCount |-> probe(h1, h2, k - 1, bf.bitCount)]

\* mightContain() that probes a filter without bits as well.
mightContain_noEmptyGuard(bf, h1, h2) ==
    \A i \in 0 .. bf.hashCount - 1 :
        /\ bf.bitCount > 0
        /\ isBitSet(bf, probe(h1, h2, i, bf.bitCount))

\* mightContain(key) for a key whose hash is (h1, h2).
mightContain(bf, h1, h2) ==
    IF bf.bitCount = 0 THEN FALSE
    ELSE \A i \in 0 .. bf.hashCount - 1 :
            isBitSet(bf, probe(h1, h2, i, bf.bitCount))

----------------------------------------------------------------------------
(* class TargetState *)

NewTargetState ==
    [_added |-> FALSE, _current |-> FALSE, _resumeToken |-> Null]

\* The outcome of a method call: it returned, or it threw the named error
\* and left the object as `st'.
Returned(st) == [threw |-> "none", st |-> st]
Threw(name, st) == [threw |-> name, st |-> st]

\* The errors the methods throw: the class of the error and what its
\* message names.
ErrAlreadyAdded == "TargetStateError: onAdded() invoked when already added"
ErrRemovedNotAdded == "TargetStateError: onRemoved() invoked when not added"
ErrCurrentNotAdded == "TargetStateError: onCurrent() invoked when not added"
ErrResetNotAdded == "TargetStateError: onReset() invoked when not added"
ErrNoChangeNotAdded == "TargetStateError: onNoChange() invoked when not added"
ErrNoChangeNotCurrent ==
    "TargetStateError: onNoChange() invoked when not current"

TargetStateErrors ==
    {ErrAlreadyAdded, ErrRemovedNotAdded, ErrCurrentNotAdded,
     ErrResetNotAdded, ErrNoChangeNotAdded, ErrNoChangeNotCurrent}

onAdded(st) ==
    IF st._added
    THEN Threw(ErrAlreadyAdded, st)
    ELSE Returned([st EXCEPT !._added = TRUE, !._current = FALSE])

\* onRemoved() that forgets to clear _current.
onRemoved_keepsCurrent(st) ==
    IF ~st._added
    THEN Threw(ErrRemovedNotAdded, st)
    ELSE Returned([st EXCEPT !._added = FALSE])

onRemoved(st) ==
    IF ~st._added
    THEN Threw(ErrRemovedNotAdded, st)
    ELSE Returned([st EXCEPT !._added = FALSE, !._current = FALSE])

\* onCurrent(), lines 170-175, without the check of _added.
onCurrent_noAddedCheck(st) == Returned([st EXCEPT !._current = TRUE])

onCurrent(st) ==
    IF ~st._added
    THEN Threw(ErrCurrentNotAdded, st)
    ELSE Returned([st EXCEPT !._current = TRUE])

onReset(st) ==
    IF ~st._added
    THEN Threw(ErrResetNotAdded, st)
    ELSE Returned([st EXCEPT !._current = FALSE])

\* onNoChange() without the check of _current.
onNoChange_noCurrentCheck(st, resumeToken) ==
    IF ~st._added
    THEN Threw(ErrNoChangeNotAdded, st)
    ELSE IF resumeToken # Null
    THEN Returned([st EXCEPT !._resumeToken = resumeToken])
    ELSE Returned(st)

onNoChange(st, resumeToken) ==
    IF ~st._added
    THEN Threw(ErrNoChangeNotAdded, st)
    ELSE IF ~st._current
    THEN Threw(ErrNoChangeNotCurrent, st)
    ELSE IF resumeToken # Null
    THEN Returned([st EXCEPT !._resumeToken = resumeToken])
    ELSE Returned(st)

----------------------------------------------------------------------------
(* Deferred: a promise settled at most once; later resolve() and reject()  *)
(* calls are ignored.                                                      *)

PendingDeferred == [state |-> "pending", err |-> 0]

Resolve(d) ==
    IF d.state = "pending" THEN [state |-> "resolved", err |-> 0] ELSE d

Reject(d, e) ==
    IF d.state = "pending" THEN [state |-> "rejected", err |-> e] ELSE d

----------------------------------------------------------------------------
(* The transport: connection.openStream() and the Stream it returns *)

NotClosed == -1       \* the transport has not reported this channel closed
NoError == 0          \* onClose callback invoked without an error

\* What can happen to open() between openStream() and storing the handle.
SetupOutcomes ==
    {"openStreamThrows", "onOpenThrows", "onCloseThrows", "onMessageThrows",
     "ok"}

\* The Stream after an open() whose catch block does not close it.
NewChannel_noCloseInCatch(setup) ==
    [ onOpen     |-> setup \in {"onCloseThrows", "onMessageThrows", "ok"},
      onClose    |-> setup \in {"onMessageThrows", "ok"},
      onMessage  |-> setup = "ok",
      closeCalls |-> 0,
      sent       |-> <<>>,
      sigOpen    |-> FALSE,
      sigClose   |-> NotClosed,
      first      |-> "none",
      afterRequest |-> FALSE,
      deferred   |-> PendingDeferred ]

\* The Stream returned by openStream(), after open() has run with outcome
\* `setup': which callbacks got registered, and whether the catch block
\* closed the stream.
NewChannel(setup) ==
    [ onOpen     |-> setup \in {"onCloseThrows", "onMessageThrows", "ok"},
      onClose    |-> setup \in {"onMessageThrows", "ok"},
      onMessage  |-> setup = "ok",
      closeCalls |-> IF setup = "ok" THEN 0 ELSE 1,
      sent       |-> <<>>,
      sigOpen    |-> FALSE,
      sigClose   |-> NotClosed,
      first      |-> "none",
      afterRequest |-> FALSE,
      deferred   |-> PendingDeferred ]

----------------------------------------------------------------------------
(* class WatchStream *)

\* The errors WatchStream throws itself.
ErrOpenOnce == "WatchError: open() may only be called once"
ErrOpenAfterClose == "WatchError: open() may not be called after close()"
ErrAddBeforeOpen == "WatchError: open() must be called before addTarget()"
ErrAddAfterClose == "WatchError: addTarget() may not be called after close()"
ErrTargetIdUsed == "WatchError: targetId is already used"
ErrUnknownTargetId == "WatchError: TargetChange specifies an unknown targetId"
ErrUnknownType == "WatchError: unknown targetChangeType"

WatchErrors ==
    {ErrOpenOnce, ErrOpenAfterClose, ErrAddBeforeOpen, ErrAddAfterClose,
     ErrTargetIdUsed, ErrUnknownTargetId, ErrUnknownType}

\* An error thrown by the transport; `err' of the record says which.
TransportError == "TransportError"

\* Map.has / Map.set on _targets, a sequence of entries in insertion order.
MapHas(m, targetId) == \E i \in 1 .. Len(m) : m[i].targetId = targetId

MapSet(m, targetId, st) ==
    IF MapHas(m, targetId)
    THEN [i \in 1 .. Len(m) |->
            IF m[i].targetId = targetId
            THEN [targetId |-> targetId, state |-> st] ELSE m[i]]
    ELSE Append(m, [targetId |-> targetId, state |-> st])

MapKeys(m) == {m[i].targetId : i \in 1 .. Len(m)}

\* The state before a call, recorded in `last'.
Snapshot ==
    [ stream |-> _stream, closed |-> _closed,
      closedDeferred |-> _closedDeferred, targets |-> _targets,
      channels |-> channels, openCalls |-> openCalls,
      openCall |-> openCall, closeCall |-> closeCall ]

\* open(), lines 210-214: the error thrown before a channel is acquired.
openGuard ==
    IF _stream # 0 THEN ErrOpenOnce
    ELSE IF _closed THEN ErrOpenAfterClose
    ELSE "none"

\* open() up to its await.  `setup' and `e' are the transport's doing: which
\* call of the setup throws, and the error it throws.
Open ==
    /\ openCalls < MaxOpenCalls
    /\ openCalls' = openCalls + 1
    /\ \E setup \in SetupOutcomes, e \in Errors :
        IF openGuard # "none"
        THEN /\ last' = [op |-> "open", threw |-> openGuard, err |-> 0,
                         invokedOpenStream |-> FALSE, pre |-> Snapshot]
             /\ UNCHANGED <<_stream, _closed, _closedDeferred, _targets,
                            channels, openCall, closeCall, ts, bloomFilter>>
        ELSE IF setup = "openStreamThrows"
        THEN /\ last' = [op |-> "open", threw |-> TransportError,
                         err |-> e, invokedOpenStream |-> TRUE,
                         pre |-> Snapshot]
             /\ UNCHANGED <<_stream, _closed, _closedDeferred, _targets,
                            channels, openCall, closeCall, ts, bloomFilter>>
        ELSE IF setup # "ok"
        THEN /\ channels' = Append(channels, NewChannel(setup))
             /\ last' = [op |-> "open", threw |-> TransportError,
                         err |-> e, invokedOpenStream |-> TRUE,
                         pre |-> Snapshot]
             /\ UNCHANGED <<_stream, _closed, _closedDeferred, _targets,
                            openCall, closeCall, ts, bloomFilter>>
        ELSE /\ channels' = Append(channels, NewChannel(setup))
             /\ _stream' = Len(channels) + 1
             /\ openCall' = [pc |-> "awaiting", err |-> 0]
             /\ last' = [op |-> "open", threw |-> "none", err |-> 0,
                         invokedOpenStream |-> TRUE, pre |-> Snapshot]
             /\ UNCHANGED <<_closed, _closedDeferred, _targets, closeCall,
                            ts, bloomFilter>>

\* The continuation of open() after `await deferred.promise'.
OpenResume ==
    /\ openCall.pc = "awaiting"
    /\ channels[_stream].deferred.state # "pending"
    /\ openCall' =
         IF channels[_stream].deferred.state = "resolved"
         THEN [pc |-> "returned", err |-> 0]
         ELSE [pc |-> "threw", err |-> channels[_stream].deferred.err]
    /\ last' = [op |-> "openResume", pre |-> Snapshot]
    /\ UNCHANGED <<_stream, _closed, _closedDeferred, _targets, channels,
                   openCalls, closeCall, ts, bloomFilter>>

\* close() that does not return early when already closed.
closeReturnsEarly_never == FALSE

\* close(), lines 248-250.
closeReturnsEarly == _closed

\* close() that also drops the stream handle.
Close_dropsStream ==
    IF closeReturnsEarly
    THEN /\ last' = [op |-> "close", requested |-> FALSE, pre |-> Snapshot]
         /\ UNCHANGED <<_stream, _closed, _closedDeferred, _targets,
                        channels, openCalls, openCall, closeCall, ts,
                        bloomFilter>>
    ELSE IF _stream = 0
    THEN /\ _closed' = TRUE
         /\ last' = [op |-> "close", requested |-> FALSE, pre |-> Snapshot]
         /\ UNCHANGED <<_stream, _closedDeferred, _targets, channels,
                        openCalls, openCall, closeCall, ts, bloomFilter>>
    ELSE /\ _closed' = TRUE
         /\ _stream' = 0
         /\ channels' = [channels EXCEPT ![_stream].closeCalls = @ + 1]
         /\ closeCall' = [pc |-> "awaiting", err |-> 0]
         /\ last' = [op |-> "close", requested |-> TRUE, pre |-> Snapshot]
         /\ UNCHANGED <<_closedDeferred, _targets, openCalls, openCall, ts,
                        bloomFilter>>

\* close() up to its await.
Close ==
    IF closeReturnsEarly
    THEN /\ last' = [op |-> "close", requested |-> FALSE, pre |-> Snapshot]
         /\ UNCHANGED <<_stream, _closed, _closedDeferred, _targets,
                        channels, openCalls, openCall, closeCall, ts,
                        bloomFilter>>
    ELSE IF _stream = 0
    THEN /\ _closed' = TRUE
         /\ last' = [op |-> "close", requested |-> FALSE, pre |-> Snapshot]
         /\ UNCHANGED <<_stream, _closedDeferred, _targets, channels,
                        openCalls, openCall, closeCall, ts, bloomFilter>>
    ELSE /\ _closed' = TRUE
         /\ channels' = [channels EXCEPT ![_stream].closeCalls = @ + 1]
         /\ closeCall' = [pc |-> "awaiting", err |-> 0]
         /\ last' = [op |-> "close", requested |-> TRUE, pre |-> Snapshot]
         /\ UNCHANGED <<_stream, _closedDeferred, _targets, openCalls,
                        openCall, ts, bloomFilter>>

\* The continuation of close() after `await this._closedDeferred.promise'.
CloseResume ==
    /\ closeCall.pc = "awaiting"
    /\ _closedDeferred.state # "pending"
    /\ closeCall' =
         IF _closedDeferred.state = "resolved"
         THEN [pc |-> "returned", err |-> 0]
         ELSE [pc |-> "threw", err |-> _closedDeferred.err]
    /\ last' = [op |-> "closeResume", pre |-> Snapshot]
    /\ UNCHANGED <<_stream, _closed, _closedDeferred, _targets, channels,
                   openCalls, openCall, ts, bloomFilter>>

\* addTarget(), lines 262-268, without the check for a used targetId.
addTargetGuard_noDuplicateCheck(targetId) ==
    IF _stream = 0 THEN ErrAddBeforeOpen
    ELSE IF _closed THEN ErrAddAfterClose
    ELSE "none"

\* addTarget(), lines 262-268, without the check of _closed.
addTargetGuard_noClosedCheck(targetId) ==
    IF _stream = 0 THEN ErrAddBeforeOpen
    ELSE IF MapHas(_targets, targetId) THEN ErrTargetIdUsed
    ELSE "none"

\* addTarget(), lines 262-268: the error thrown before anything is sent.
addTargetGuard(targetId) ==
    IF _stream = 0 THEN ErrAddBeforeOpen
    ELSE IF _closed THEN ErrAddAfterClose
    ELSE IF MapHas(_targets, targetId) THEN ErrTargetIdUsed
    ELSE "none"

\* The targetIds addTarget() is called with.  The code uses a targetId as a
\* key of the map only, so the callers take unused identifiers in increasing
\* order: a call names a registered identifier or the next unused one.
AddTargetIds == {id \in TargetIds : id <= Len(_targets) + 1}

\* addTarget() that registers the target before it hands the message to
\* send().
AddTarget_registersBeforeSend ==
    \E targetId \in AddTargetIds, sendThrows \in BOOLEAN, e \in Errors :
        IF addTargetGuard(targetId) # "none"
        THEN /\ last' = [op |-> "addTarget", targetId |-> targetId,
                         threw |-> addTargetGuard(targetId), err |-> 0,
                         pre |-> Snapshot]
             /\ UNCHANGED <<_stream, _closed, _closedDeferred, _targets,
                            channels, openCalls, openCall, closeCall, ts,
                            bloomFilter>>
        ELSE IF sendThrows
        THEN /\ _targets' = MapSet(_targets, targetId, NewTargetState)
             /\ last' = [op |-> "addTarget", targetId |-> targetId,
                         threw |-> TransportError, err |-> e,
                         pre |-> Snapshot]
             /\ UNCHANGED <<_stream, _closed, _closedDeferred, channels,
                            openCalls, openCall, closeCall, ts, bloomFilter>>
        ELSE /\ channels' =
                   [channels EXCEPT ![_stream].sent = Append(@, targetId)]
             /\ _targets' = MapSet(_targets, targetId, NewTargetState)
             /\ last' = [op |-> "addTarget", targetId |-> targetId,
                         threw |-> "none", err |-> 0, pre |-> Snapshot]
             /\ UNCHANGED <<_stream, _closed, _closedDeferred, openCalls,
                            openCall, closeCall, ts, bloomFilter>>

\* addTarget(targetId, ...).  Whether send() throws, and what, is the
\* transport's doing.
AddTarget ==
    \E targetId \in AddTargetIds, sendThrows \in BOOLEAN, e \in Errors :
        IF addTargetGuard(targetId) # "none"
        THEN /\ last' = [op |-> "addTarget", targetId |-> targetId,
                         threw |-> addTargetGuard(targetId), err |-> 0,
                         pre |-> Snapshot]
             /\ UNCHANGED <<_stream, _closed, _closedDeferred, _targets,
                            channels, openCalls, openCall, closeCall, ts,
                            bloomFilter>>
        ELSE IF sendThrows
        THEN /\ last' = [op |-> "addTarget", targetId |-> targetId,
                         threw |-> TransportError, err |-> e,
                         pre |-> Snapshot]
             /\ UNCHANGED <<_stream, _closed, _closedDeferred, _targets,
                            channels, openCalls, openCall, closeCall, ts,
                            bloomFilter>>
        ELSE /\ channels' =
                   [channels EXCEPT ![_stream].sent = Append(@, targetId)]
             /\ _targets' = MapSet(_targets, targetId, NewTargetState)
             /\ last' = [op |-> "addTarget", targetId |-> targetId,
                         threw |-> "none", err |-> 0, pre |-> Snapshot]
             /\ UNCHANGED <<_stream, _closed, _closedDeferred, openCalls,
                            openCall, closeCall, ts, bloomFilter>>

\* The callback registered with stream.onOpen(), lines 220-222: its effect
\* on the deferred of its open() call.
onOpenCallback(d) == Resolve(d)

\* The onClose callback rejecting the deferred of open() whether or not
\* there is an error.
onCloseCallbackOpen_alwaysRejects(err, d) == Reject(d, err)

\* The onClose callback settling the deferred of open() only when there is
\* an error.
onCloseCallbackOpen_onlyRejects(err, d) ==
    IF err # NoError THEN Reject(d, err) ELSE d

\* The callback registered with stream.onClose(), lines 224-232: its effect
\* on the deferred of its open() call ...
onCloseCallbackOpen(err, d) ==
    IF err # NoError THEN Reject(d, err) ELSE Resolve(d)

\* ... and on this._closedDeferred.
onCloseCallbackClosed(err, d) ==
    IF err # NoError THEN Reject(d, err) ELSE Resolve(d)

\* The transport invokes the callback registered with stream.onOpen(), at
\* most once for a channel.  `first' remembers which signal came first.
\* The callback of a channel whose set-up failed resolves the deferred of an
\* open() call that has thrown already, which nothing can observe; only the
\* channel the stream holds is followed.
TransportOpen ==
    \E n \in 1 .. Len(channels) :
        /\ n = _stream
        /\ channels[n].onOpen
        /\ ~channels[n].sigOpen
        /\ channels' = [channels EXCEPT
                          ![n].sigOpen = TRUE,
                          ![n].first = IF @ = "none" THEN "open" ELSE @,
                          ![n].deferred = onOpenCallback(@)]
        /\ last' = [op |-> "onOpen", channel |-> n, pre |-> Snapshot]
        /\ UNCHANGED <<_stream, _closed, _closedDeferred, _targets,
                       openCalls, openCall, closeCall, ts, bloomFilter>>

\* The transport invokes the callback that channel n registered with
\* stream.onClose(), with error `err' or without one.  `afterRequest'
\* remembers whether stream.close() had been called on the channel.
TransportCloseOf(n, err) ==
    /\ channels[n].onClose
    /\ channels[n].sigClose = NotClosed
    /\ channels' = [channels EXCEPT
                      ![n].sigClose = err,
                      ![n].first = IF @ = "none" THEN "close" ELSE @,
                      ![n].afterRequest = channels[n].closeCalls > 0,
                      ![n].deferred = onCloseCallbackOpen(err, @)]
    /\ _closedDeferred' = onCloseCallbackClosed(err, _closedDeferred)
    /\ last' = [op |-> "onClose", channel |-> n, err |-> err,
                pre |-> Snapshot]
    /\ UNCHANGED <<_stream, _closed, _targets, openCalls, openCall,
                   closeCall, ts, bloomFilter>>

\* The transport reports a channel closed, with an error or without one, at
\* most once for a channel.
TransportClose ==
    \E n \in 1 .. Len(channels), err \in {NoError} \cup Errors :
        TransportCloseOf(n, err)

\* The state after `new WatchStream(connection, projectId)'.
WsInit ==
    /\ _stream = 0
    /\ _closed = FALSE
    /\ _closedDeferred = PendingDeferred
    /\ _targets = <<>>
    /\ channels = <<>>
    /\ openCalls = 0
    /\ openCall = [pc |-> "none", err |-> 0]
    /\ closeCall = [pc |-> "none", err |-> 0]

Init ==
    /\ ts = NewTargetState
    /\ bloomFilter = NoBloomFilter
    /\ WsInit
    /\ last = [op |-> "init"]

Next ==
    \/ Open
    \/ OpenResume
    \/ Close
    \/ CloseResume
    \/ AddTarget
    \/ TransportOpen
    \/ TransportClose

Spec == Init /\ [][Next]_vars

\* The transport reports the closure of a channel whose close was requested.
TransportCloseRequested ==
    \E n \in 1 .. Len(channels), err \in {NoError} \cup Errors :
        /\ channels[n].closeCalls > 0
        /\ TransportCloseOf(n, err)

\* The steps of open() and close() and of the transport under them;
\* addTarget() takes no part in the completion of either call.
NextLive ==
    \/ Open
    \/ OpenResume
    \/ Close
    \/ CloseResume
    \/ TransportOpen
    \/ TransportClose

\* SpecLive: the lifecycle with the scheduling the code can rely on.  The
\* continuation of an await runs once its promise is settled, and the
\* transport reports the closure of a channel after stream.close().
SpecLive ==
    /\ Init
    /\ [][NextLive]_vars
    /\ WF_vars(OpenResume)
    /\ WF_vars(CloseResume)
    /\ WF_vars(TransportCloseRequested)

----------------------------------------------------------------------------
(* Inbound messages and their dispatch *)

TargetChangeTypes ==
    {"ADD", "REMOVE", "CURRENT", "RESET", "NO_CHANGE", "UNRECOGNIZED"}

\* A TargetChange.  hasTargetIds = FALSE is a message without the targetIds
\* field; resumeToken = Null is a message without a resume token.
TargetChanges ==
    { [hasTargetIds |-> h, targetIds |-> ids, targetChangeType |-> t,
       resumeToken |-> tok] :
        h \in BOOLEAN,
        ids \in UNION {[1 .. n -> MsgTargetIds] : n \in 0 .. MaxIds},
        t \in TargetChangeTypes,
        tok \in {Null} \cup MsgTokens }

\* A ListenResponse: the field that is set, and the TargetChange when the
\* field is targetChange.  "none" is a response with none of the five.
ListenResponses ==
    { [kind |-> "targetChange", targetChange |-> tc] :
        tc \in { x \in TargetChanges :
                   /\ (~x.hasTargetIds => x.targetIds = <<>>)
                   /\ (x.targetChangeType # "NO_CHANGE"
                         => x.resumeToken = Null) } }
    \cup
    { [kind |-> k] :
        k \in {"documentChange", "documentRemove", "documentDelete",
               "filter", "none"} }

MapGet(m, targetId) ==
    (CHOOSE i \in 1 .. Len(m) : m[i].targetId = targetId)

\* `targetChange.targetIds ?? []'
TargetIdsOrEmpty(targetChange) ==
    IF targetChange.hasTargetIds THEN targetChange.targetIds ELSE <<>>

\* _targetStatesForTargetChange() that skips the identifiers it does not
\* know instead of throwing.
targetStatesForTargetChange_skipsUnknown(targetChange, m) ==
    LET ids == TargetIdsOrEmpty(targetChange)
        known == SelectSeq(ids, LAMBDA id : MapHas(m, id))
    IN  IF Len(known) > 0
        THEN [threw |-> "none",
              refs |-> [i \in 1 .. Len(known) |-> MapGet(m, known[i])]]
        ELSE [threw |-> "none", refs |-> [i \in 1 .. Len(m) |-> i]]

\* _targetStatesForTargetChange() that applies an empty list to no target.
targetStatesForTargetChange_noBroadcast(targetChange, m) ==
    LET ids == TargetIdsOrEmpty(targetChange)
    IN  IF \E i \in 1 .. Len(ids) : ~MapHas(m, ids[i])
        THEN [threw |-> ErrUnknownTargetId, refs |-> <<>>]
        ELSE [threw |-> "none",
              refs |-> [i \in 1 .. Len(ids) |-> MapGet(m, ids[i])]]

\* _targetStatesForTargetChange(): the TargetState objects the change is
\* for, as positions in the map `m', or the error thrown.
targetStatesForTargetChange(targetChange, m) ==
    LET ids == TargetIdsOrEmpty(targetChange)
    IN  IF \E i \in 1 .. Len(ids) : ~MapHas(m, ids[i])
        THEN [threw |-> ErrUnknownTargetId, refs |-> <<>>]
        ELSE IF Len(ids) > 0
        THEN [threw |-> "none",
              refs |-> [i \in 1 .. Len(ids) |-> MapGet(m, ids[i])]]
        ELSE [threw |-> "none", refs |-> [i \in 1 .. Len(m) |-> i]]

\* The body of the switch in _onTargetChange() for one TargetState.
applyTargetChange(targetChange, st) ==
    CASE targetChange.targetChangeType = "ADD" -> onAdded(st)
      [] targetChange.targetChangeType = "REMOVE" -> onRemoved(st)
      [] targetChange.targetChangeType = "CURRENT" -> onCurrent(st)
      [] targetChange.targetChangeType = "RESET" -> onReset(st)
      [] targetChange.targetChangeType = "NO_CHANGE" ->
            onNoChange(st, targetChange.resumeToken)
      [] OTHER -> Threw(ErrUnknownType, st)

\* The for loop of _onTargetChange() applying the change to all of `refs'
\* or, when a handler would throw, to none.
targetChangeLoop_allOrNothing(targetChange, refs, k, m) ==
    LET fails(j) ==
            applyTargetChange(targetChange, m[refs[j]].state).threw # "none"
        failing == {j \in k .. Len(refs) : fails(j)}
        first == CHOOSE j \in failing : \A i \in failing : j <= i
    IN  IF failing # {}
        THEN [threw |->
                applyTargetChange(targetChange, m[refs[first]].state).threw,
              targets |-> m]
        ELSE [threw |-> "none",
              targets |->
                [i \in 1 .. Len(m) |->
                    IF \E j \in k .. Len(refs) : refs[j] = i
                    THEN [m[i] EXCEPT !.state =
                            applyTargetChange(targetChange, @).st]
                    ELSE m[i]]]

\* The for loop of _onTargetChange() from position k of `refs' on: the map
\* when the loop ends or throws, and the error thrown.
RECURSIVE targetChangeLoop(_, _, _, _)
targetChangeLoop(targetChange, refs, k, m) ==
    IF k > Len(refs)
    THEN [threw |-> "none", targets |-> m]
    ELSE LET r == applyTargetChange(targetChange, m[refs[k]].state)
         IN  IF r.threw # "none"
             THEN [threw |-> r.threw, targets |-> m]
             ELSE targetChangeLoop(targetChange, refs, k + 1,
                                   [m EXCEPT ![refs[k]].state = r.st])

\* _onTargetChange()
onTargetChange(targetChange, m) ==
    LET resolved == targetStatesForTargetChange(targetChange, m)
    IN  IF resolved.threw # "none"
        THEN [threw |-> resolved.threw, targets |-> m]
        ELSE targetChangeLoop(targetChange, resolved.refs, 1, m)

\* _onMessageReceived(); the four other handlers have empty bodies.
onMessageReceived(msg, m) ==
    IF msg.kind = "targetChange"
    THEN onTargetChange(msg.targetChange, m)
    ELSE [threw |-> "none", targets |-> m]

\* The transport invokes the callback registered with stream.onMessage().
TransportMessage ==
    \E n \in 1 .. Len(channels), msg \in ListenResponses :
        /\ channels[n].onMessage
        /\ channels[n].sigOpen
        /\ channels[n].sigClose = NotClosed
        /\ LET r == onMessageReceived(msg, _targets)
           IN  /\ _targets' = r.targets
               /\ last' = [op |-> "onMessage", msg |-> msg,
                           threw |-> r.threw, pre |-> _targets]
        /\ UNCHANGED <<_stream, _closed, _closedDeferred, channels,
                       openCalls, openCall, closeCall, ts, bloomFilter>>

\* No call or callback is running.
Idle == last.op \in {"init", "idle"}

\* The call or callback that `last' describes has returned to the event
\* loop.
TurnEnds ==
    /\ ~Idle
    /\ last' = [op |-> "idle"]
    /\ UNCHANGED <<_stream, _closed, _closedDeferred, _targets, channels,
                   openCalls, openCall, closeCall, ts, bloomFilter>>

\* SpecDispatch: a WatchStream whose open() has returned (the state Spec
\* reaches by Open, TransportOpen, OpenResume), driven by addTarget() and
\* inbound messages.  The handlers of inbound messages read and write
\* _targets only.
InitDispatch ==
    /\ ts = NewTargetState
    /\ bloomFilter = NoBloomFilter
    /\ _stream = 1
    /\ _closed = FALSE
    /\ _closedDeferred = PendingDeferred
    /\ _targets = <<>>
    /\ channels = << [NewChannel("ok") EXCEPT
                        !.sigOpen = TRUE,
                        !.first = "open",
                        !.deferred = Resolve(PendingDeferred)] >>
    /\ openCalls = 1
    /\ openCall = [pc |-> "returned", err |-> 0]
    /\ closeCall = [pc |-> "none", err |-> 0]
    /\ last = [op |-> "init"]

NextDispatch ==
    \/ (Idle /\ AddTarget)
    \/ (Idle /\ TransportMessage)
    \/ TurnEnds

SpecDispatch == InitDispatch /\ [][NextDispatch]_vars

----------------------------------------------------------------------------
(* SpecTS: one TargetState driven directly *)

InitTS ==
    /\ ts = NewTargetState
    /\ bloomFilter = NoBloomFilter
    /\ WsInit
    /\ last = [op |-> "init"]

TsCall(name, token, r) ==
    /\ ts' = r.st
    /\ last' = [op |-> name, token |-> token, threw |-> r.threw, pre |-> ts]
    /\ UNCHANGED <<wsVars, bloomFilter>>

TsOnAdded == TsCall("onAdded", Null, onAdded(ts))
TsOnRemoved == TsCall("onRemoved", Null, onRemoved(ts))
TsOnCurrent == TsCall("onCurrent", Null, onCurrent(ts))
TsOnReset == TsCall("onReset", Null, onReset(ts))
TsOnNoChange ==
    \E token \in {Null} \cup Tokens :
        TsCall("onNoChange", token, onNoChange(ts, token))

NextTS ==
    \/ TsOnAdded
    \/ TsOnRemoved
    \/ TsOnCurrent
    \/ TsOnReset
    \/ TsOnNoChange

SpecTS == InitTS /\ [][NextTS]_vars

----------------------------------------------------------------------------
(* SpecBF: one BloomFilter is constructed and then queried                 *)

InitBF ==
    /\ WsInit
    /\ bloomFilter = NoBloomFilter
    /\ ts = NewTargetState
    /\ last = [op |-> "init"]

\* new BloomFilter(bits, padding, hashCount): validation, then the instance.
\* A constructor that throws leaves no instance.
Construct ==
    /\ ~bloomFilter.constructed
    /\ \E bits \in Bitmaps, padding \in Paddings, hashCount \in HashCounts :
         LET err == BloomFilterError(bits, padding, hashCount)
         IN  /\ bloomFilter' =
                  IF err = NoBloomFilterError
                  THEN NewBloomFilter(bits, padding, hashCount)
                  ELSE NoBloomFilter
             /\ last' = [op |-> "new BloomFilter", bits |-> bits,
                         padding |-> padding, hashCount |-> hashCount,
                         threw |-> err]
    /\ UNCHANGED <<ts, wsVars>>

\* bloomFilter.mightContain(key), for a key whose hash is (h1, h2).
MightContain ==
    /\ bloomFilter.constructed
    /\ \E h1 \in HashValues, h2 \in HashValues :
         last' = [op |-> "mightContain", h1 |-> h1, h2 |-> h2,
                  probes |-> probes(bloomFilter, h1, h2),
                  result |-> mightContain(bloomFilter, h1, h2)]
    /\ UNCHANGED <<bloomFilter, ts, wsVars>>

NextBF ==
    \/ (Idle /\ Construct)
    \/ (Idle /\ MightContain)
    \/ TurnEnds

SpecBF == InitBF /\ [][NextBF]_vars

----------------------------------------------------------------------------
(* Properties of TargetState, checked under SpecTS *)

TsEvents == {"onAdded", "onRemoved", "onCurrent", "onReset", "onNoChange"}

\* The precondition of the transition table for event `op' in state `st'.
TsPrecondition(op, st) ==
    CASE op = "onAdded" -> ~st._added
      [] op = "onRemoved" -> st._added
      [] op = "onCurrent" -> st._added
      [] op = "onReset" -> st._added
      [] op = "onNoChange" -> st._added /\ st._current

\* C1: an event whose precondition holds returns, has exactly the effect of
\* the transition table on added and current, and changes resumeToken only
\* when it is onNoChange with a token present, which becomes the new token.
C1_TabulatedEffect ==
    /\ (last.op \in TsEvents
          /\ ~(last.op = "onNoChange" /\ last.token # Null)) =>
            ts._resumeToken = last.pre._resumeToken
    /\ (last.op \in TsEvents /\ TsPrecondition(last.op, last.pre)) =>
        /\ last.threw = "none"
        /\ (last.op = "onAdded") => (ts._added /\ ~ts._current)
        /\ (last.op = "onRemoved") => (~ts._added /\ ~ts._current)
        /\ (last.op = "onCurrent") => (ts._added /\ ts._current)
        /\ (last.op = "onReset") => (ts._added /\ ~ts._current)
        /\ (last.op = "onNoChange") => (ts._added /\ ts._current)
        /\ ts._resumeToken =
              IF last.op = "onNoChange" /\ last.token # Null
              THEN last.token ELSE last.pre._resumeToken

\* onAdded succeeded on an object that had been added, made current, given
\* a resume token and removed before.
C1_Witness ==
    /\ last.op = "onAdded"
    /\ last.threw = "none"
    /\ last.pre._resumeToken # Null
    /\ ts._added

\* C2: an event whose precondition does not hold throws and leaves added,
\* current and resumeToken as they were.
C2_FailureLeavesState ==
    (last.op \in TsEvents /\ ~TsPrecondition(last.op, last.pre)) =>
        /\ last.threw \in TargetStateErrors
        /\ ts._added = last.pre._added
        /\ ts._current = last.pre._current
        /\ ts._resumeToken = last.pre._resumeToken

\* onNoChange with a token failed on an added target that was not current.
C2_Witness ==
    /\ last.op = "onNoChange"
    /\ last.token # Null
    /\ last.pre._added
    /\ ~last.pre._current
    /\ last.threw = ErrNoChangeNotCurrent
    /\ ts = last.pre

----------------------------------------------------------------------------
(* Properties of the dispatch of targetChange, checked under SpecDispatch *)

IsTargetChange == last.op = "onMessage" /\ last.msg.kind = "targetChange"

\* The identifiers the last message lists: none when the field is absent.
ListedIds ==
    IF last.msg.targetChange.hasTargetIds
    THEN last.msg.targetChange.targetIds ELSE <<>>

ListedSet == {ListedIds[i] : i \in 1 .. Len(ListedIds)}

KnownTypes == {"ADD", "REMOVE", "CURRENT", "RESET", "NO_CHANGE"}

\* The event of the transition table a change type stands for.
EventOf(type) ==
    CASE type = "ADD" -> "onAdded"
      [] type = "REMOVE" -> "onRemoved"
      [] type = "CURRENT" -> "onCurrent"
      [] type = "RESET" -> "onReset"
      [] type = "NO_CHANGE" -> "onNoChange"

\* The effect column of the transition table.
TableEffect(type, token, st) ==
    CASE type = "ADD" ->
            [_added |-> TRUE, _current |-> FALSE,
             _resumeToken |-> st._resumeToken]
      [] type = "REMOVE" ->
            [_added |-> FALSE, _current |-> FALSE,
             _resumeToken |-> st._resumeToken]
      [] type = "CURRENT" ->
            [_added |-> st._added, _current |-> TRUE,
             _resumeToken |-> st._resumeToken]
      [] type = "RESET" ->
            [_added |-> st._added, _current |-> FALSE,
             _resumeToken |-> st._resumeToken]
      [] type = "NO_CHANGE" ->
            [_added |-> st._added, _current |-> st._current,
             _resumeToken |-> IF token # Null THEN token
                              ELSE st._resumeToken]

\* C3: a targetChange that lists at least one identifier and names one that
\* is not registered fails, and the map of TargetStates is as it was before
\* the message.
C3_UnknownTargetFailsWhole ==
    (IsTargetChange /\ Len(ListedIds) >= 1
       /\ \E id \in ListedSet : ~MapHas(last.pre, id)) =>
        /\ last.threw = ErrUnknownTargetId
        /\ _targets = last.pre

\* A change that names a registered target, to which it would apply, before
\* an unregistered one failed, with a second registered target present.
C3_Witness ==
    /\ IsTargetChange
    /\ Len(ListedIds) = 2
    /\ Len(last.pre) = 2
    /\ MapHas(last.pre, ListedIds[1])
    /\ ~MapHas(last.pre, ListedIds[2])
    /\ last.msg.targetChange.targetChangeType = "CURRENT"
    /\ last.pre[MapGet(last.pre, ListedIds[1])].state._added
    /\ ~last.pre[MapGet(last.pre, ListedIds[1])].state._current
    /\ last.threw = ErrUnknownTargetId
    /\ _targets = last.pre

\* C4: for a targetChange of a recognized type whose listed identifiers are
\* all registered, the targets it is for are all registered targets when it
\* lists none and the listed ones otherwise: no other target changes, no
\* entry is added or removed, the dispatch succeeds when the precondition
\* holds for each of them (and no identifier is listed twice), and when it
\* succeeds each of them has had the transition of the change type.
C4_BroadcastOrListed ==
    (IsTargetChange
       /\ last.msg.targetChange.targetChangeType \in KnownTypes
       /\ \A id \in ListedSet : MapHas(last.pre, id)) =>
        LET tc == last.msg.targetChange
            affected == IF Len(ListedIds) = 0 THEN MapKeys(last.pre)
                        ELSE ListedSet
            pos == 1 .. Len(last.pre)
        IN  /\ Len(_targets) = Len(last.pre)
            /\ \A i \in pos : _targets[i].targetId = last.pre[i].targetId
            /\ \A i \in pos :
                 last.pre[i].targetId \notin affected
                    => _targets[i] = last.pre[i]
            /\ ( /\ \A i \in pos :
                      last.pre[i].targetId \in affected =>
                        TsPrecondition(EventOf(tc.targetChangeType),
                                       last.pre[i].state)
                 /\ Cardinality(ListedSet) = Len(ListedIds) )
               => last.threw = "none"
            /\ last.threw = "none" =>
                 \A i \in pos :
                    last.pre[i].targetId \in affected =>
                      _targets[i].state =
                         TableEffect(tc.targetChangeType, tc.resumeToken,
                                     last.pre[i].state)

\* A change without the targetIds field made both registered targets
\* current.
C4_Witness ==
    /\ IsTargetChange
    /\ ~last.msg.targetChange.hasTargetIds
    /\ last.msg.targetChange.targetChangeType = "CURRENT"
    /\ last.threw = "none"
    /\ Len(last.pre) = 2
    /\ \A i \in 1 .. 2 : ~last.pre[i].state._current
    /\ \A i \in 1 .. 2 : _targets[i].state._current

\* C9: a targetChange whose change type is not one of the five fails,
\* whatever it lists and however many targets are registered.
C9_UnrecognizedTypeFails ==
    (IsTargetChange
       /\ last.msg.targetChange.targetChangeType \notin KnownTypes) =>
        last.threw # "none"

----------------------------------------------------------------------------
(* Properties of the lifecycle, checked under Spec *)

\* How many add-target messages for `targetId' were handed to send().
SentCount(targetId) ==
    Cardinality(UNION { { <<n, k>> : k \in { j \in 1 .. Len(channels[n].sent) :
                                               channels[n].sent[j] = targetId } } :
                        n \in 1 .. Len(channels) })

\* C5 as stated: addTarget with a targetId that is in the registry fails
\* with the duplicate-target error, sends nothing and leaves the registry
\* as it was; no targetId has more than one add-target message sent for it.
C5_DuplicateTargetError ==
    /\ (last.op = "addTarget" /\ MapHas(last.pre.targets, last.targetId)) =>
          /\ last.threw = ErrTargetIdUsed
          /\ channels = last.pre.channels
          /\ _targets = last.pre.targets
    /\ \A id \in TargetIds : SentCount(id) <= 1

\* C5 as amended: addTarget with a targetId that is in the registry fails,
\* with the duplicate-target error while close() has not been called and
\* with the error of addTarget after close() once it has; it sends nothing
\* and leaves the registry as it was; no targetId has more than one
\* add-target message sent for it.
C5_DuplicateTargetRejected ==
    /\ (last.op = "addTarget" /\ MapHas(last.pre.targets, last.targetId)) =>
          /\ last.threw = IF last.pre.closed THEN ErrAddAfterClose
                          ELSE ErrTargetIdUsed
          /\ channels = last.pre.channels
          /\ _targets = last.pre.targets
    /\ \A id \in TargetIds : SentCount(id) <= 1

\* addTarget failed on an open, not closed stream because the targetId was
\* registered.
C5_Witness ==
    /\ last.op = "addTarget"
    /\ last.pre.stream # 0
    /\ ~last.pre.closed
    /\ MapHas(last.pre.targets, last.targetId)
    /\ last.threw = ErrTargetIdUsed
    /\ SentCount(last.targetId) = 1

\* C6: every open() call after the first one, and every open() call after
\* close(), fails without invoking openStream.
C6_OpenOnlyOnce ==
    (last.op = "open" /\ (last.pre.openCalls >= 1 \/ last.pre.closed)) =>
        /\ last.threw \in {ErrOpenOnce, ErrOpenAfterClose}
        /\ ~last.invokedOpenStream
        /\ channels = last.pre.channels

\* C7: no channel has its close requested twice; the channel the stream
\* holds has its close requested exactly once when close() has been called
\* and not before; a close() call on a closed stream changes nothing, and a
\* close() call on a stream without a channel requests no close.
C7_CloseReleasesOnce ==
    /\ \A n \in 1 .. Len(channels) : channels[n].closeCalls <= 1
    /\ _stream # 0 =>
          channels[_stream].closeCalls = IF _closed THEN 1 ELSE 0
    /\ (last.op = "close" /\ last.pre.closed) =>
          /\ ~last.requested
          /\ channels = last.pre.channels
          /\ _closed = last.pre.closed
          /\ _targets = last.pre.targets
          /\ _stream = last.pre.stream
          /\ closeCall = last.pre.closeCall
    /\ (last.op = "close" /\ last.pre.stream = 0) =>
          /\ ~last.requested
          /\ channels = last.pre.channels
    /\ (last.op = "close" /\ ~last.pre.closed /\ last.pre.stream # 0) =>
          /\ last.requested
          /\ _closed

\* A second close() on a stream that holds a channel and has targets.
C7_Witness ==
    /\ last.op = "close"
    /\ last.pre.closed
    /\ last.pre.stream # 0
    /\ channels[_stream].closeCalls = 1
    /\ Len(_targets) > 0

\* C8: addTarget before any open() call, or after a close() call, fails
\* without sending a message and without registering a TargetState.
C8_AddTargetNeedsOpenStream ==
    (last.op = "addTarget"
       /\ (last.pre.openCalls = 0 \/ last.pre.closed)) =>
        /\ last.threw \in {ErrAddBeforeOpen, ErrAddAfterClose}
        /\ channels = last.pre.channels
        /\ _targets = last.pre.targets

\* addTarget of an unused targetId failed on a stream that holds a channel
\* which has signalled open, because close() had been called.
C8_Witness ==
    /\ last.op = "addTarget"
    /\ last.pre.closed
    /\ last.pre.stream # 0
    /\ channels[_stream].sigOpen
    /\ ~MapHas(last.pre.targets, last.targetId)
    /\ last.threw = ErrAddAfterClose

\* C10 as stated: open() never completes successfully for a channel that
\* has not signalled open.
C10_ReturnsOnlyAfterOpenSignal ==
    openCall.pc = "returned" => channels[_stream].sigOpen

\* C10 as amended: open() stays suspended while its channel has signalled
\* nothing; it completes successfully only if the first signal was on-open
\* or an on-close without error, and fails only if the first signal was an
\* on-close with an error, with that error; the first signal settles the
\* outcome, and a completed open() is not changed by any later call or
\* signal.
C10_OpenOutcome ==
    _stream # 0 =>
        LET c == channels[_stream]
        IN  /\ c.first = "none" =>
                 (openCall.pc = "awaiting" /\ c.deferred.state = "pending")
            /\ openCall.pc = "returned" =>
                 (c.first = "open"
                    \/ (c.first = "close" /\ c.sigClose = NoError))
            /\ openCall.pc = "threw" =>
                 /\ c.first = "close"
                 /\ c.sigClose \in Errors
                 /\ openCall.err = c.sigClose
            /\ (c.first = "open"
                  \/ (c.first = "close" /\ c.sigClose = NoError)) =>
                 (c.deferred.state = "resolved"
                    /\ openCall.pc \in {"awaiting", "returned"})
            /\ (c.first = "close" /\ c.sigClose \in Errors) =>
                 /\ c.deferred = [state |-> "rejected", err |-> c.sigClose]
                 /\ openCall.pc \in {"awaiting", "threw"}
            /\ (last.op # "init"
                  /\ last.pre.openCall.pc \in {"returned", "threw"}) =>
                 openCall = last.pre.openCall

\* open() returned for a channel that closed without error and signalled
\* open only afterwards.
C10_Witness ==
    /\ _stream # 0
    /\ openCall.pc = "returned"
    /\ channels[_stream].first = "close"
    /\ channels[_stream].sigClose = NoError
    /\ channels[_stream].sigOpen

----------------------------------------------------------------------------
(* Properties of the lifecycle that need the scheduling, checked under     *)
(* SpecLive                                                                *)

Completed == {"returned", "threw"}

\* C11: when close() has been called while open() is waiting, and the
\* transport reports the closure of the channel after the close request,
\* open() completes and close() completes.
C11_CloseUnblocksOpen ==
    (openCall.pc = "awaiting" /\ closeCall.pc = "awaiting")
        ~> (openCall.pc \in Completed /\ closeCall.pc \in Completed)

\* open() and close() have both returned for a channel that never
\* signalled open and whose closure was reported after close() requested
\* it.
C11_Witness ==
    /\ _stream # 0
    /\ openCall.pc = "returned"
    /\ closeCall.pc = "returned"
    /\ ~channels[_stream].sigOpen
    /\ channels[_stream].first = "close"
    /\ channels[_stream].afterRequest

----------------------------------------------------------------------------
(* Properties of the lifecycle, checked under Spec (continued)             *)

\* C12: close() of a stream that holds a channel completes with the verdict
\* the transport reported for that channel: it returns if and only if the
\* channel was reported closed without an error and throws exactly the
\* transport's error if and only if it was reported closed with one; an
\* error closure that comes first also makes the waiting open() throw it.
C12_CloseCarriesVerdict ==
    /\ closeCall.pc = "returned" =>
          channels[_stream].sigClose = NoError
    /\ closeCall.pc = "threw" =>
          /\ channels[_stream].sigClose \in Errors
          /\ closeCall.err = channels[_stream].sigClose
    /\ ( /\ openCall.pc \in Completed
         /\ _stream # 0
         /\ channels[_stream].first = "close"
         /\ channels[_stream].sigClose \in Errors ) =>
          /\ openCall.pc = "threw"
          /\ openCall.err = channels[_stream].sigClose

\* C15 as stated: the stream handle is null whenever open() has not been
\* called and whenever close() has completed.
C15_HandleNullOutsideLifetime ==
    /\ openCalls = 0 => _stream = 0
    /\ closeCall.pc \in Completed => _stream = 0

\* C15: the stream handle is null whenever open() has not been called; it
\* is set only to a channel whose set-up succeeded, and once set it never
\* changes: it is still set when close() has completed.
C15_HandleSetOnce ==
    /\ openCalls = 0 => _stream = 0
    /\ _stream # 0 =>
          /\ _stream \in 1 .. Len(channels)
          /\ channels[_stream].onOpen
          /\ channels[_stream].onClose
          /\ channels[_stream].onMessage
    /\ last.op # "init" =>
          (last.pre.stream # 0 => _stream = last.pre.stream)
    /\ closeCall.pc \in Completed => _stream # 0

\* close() has completed and the stream handle is still set.
C15_Witness ==
    /\ closeCall.pc \in Completed
    /\ last.op = "closeResume"
    /\ _stream # 0

\* C13: when open() fails while it acquires or sets up the channel, the
\* channel it had acquired has been closed when the failure reaches the
\* caller, the failure is the transport's error, and no stream handle is
\* kept; so every channel that is not held has been closed.
C13_FailedSetupReleasesChannel ==
    /\ (last.op = "open" /\ last.threw = TransportError) =>
          /\ last.err \in Errors
          /\ _stream = 0
          /\ Len(channels) > Len(last.pre.channels) =>
                /\ ~channels[Len(channels)].onMessage
                /\ channels[Len(channels)].closeCalls = 1
    /\ \A n \in 1 .. Len(channels) :
          n # _stream => channels[n].closeCalls = 1

\* open() has just failed because stream.onMessage() threw, after onOpen
\* and onClose were registered on the channel it had acquired.
C13_Witness ==
    /\ last.op = "open"
    /\ last.threw = TransportError
    /\ Len(channels) = Len(last.pre.channels) + 1
    /\ channels[Len(channels)].onClose
    /\ channels[Len(channels)].closeCalls = 1
    /\ _stream = 0

\* C20: addTarget() sends a message and registers a target only when the
\* channel has signalled open, the transport has not reported it closed and
\* close() has not been called; in every other state it fails without
\* sending or registering.
C20_SendsOnlyWhileOpen ==
    last.op = "addTarget" =>
      LET pre == last.pre
          open == /\ pre.stream # 0
                  /\ pre.channels[pre.stream].sigOpen
                  /\ pre.channels[pre.stream].sigClose = NotClosed
                  /\ ~pre.closed
      IN  /\ last.threw = "none" => open
          /\ ~open =>
                /\ last.threw # "none"
                /\ _targets = pre.targets
                /\ channels = pre.channels

\* The target identifiers whose add-target message send() has taken.
SentIds ==
    UNION { {channels[n].sent[j] : j \in 1 .. Len(channels[n].sent)} :
            n \in 1 .. Len(channels) }

\* C21: the registered target identifiers are exactly those whose
\* add-target message send() has taken: addTarget() registers the target in
\* the call whose send() returned, with no acknowledgment in between, and
\* leaves the registry as it was when send() throws.
C21_RegistryIsSentIds ==
    /\ MapKeys(_targets) = SentIds
    /\ (last.op = "addTarget" /\ last.threw = "none") =>
          /\ MapHas(_targets, last.targetId)
          /\ ~MapHas(last.pre.targets, last.targetId)
          /\ channels[_stream].sent =
                Append(last.pre.channels[_stream].sent, last.targetId)
    /\ (last.op = "addTarget" /\ last.threw = TransportError) =>
          /\ _targets = last.pre.targets
          /\ channels = last.pre.channels

\* send() has just thrown in an addTarget() for a new target on a stream
\* that has a target registered.
C21_Witness ==
    /\ last.op = "addTarget"
    /\ last.threw = TransportError
    /\ Len(_targets) > 0
    /\ ~MapHas(_targets, last.targetId)

----------------------------------------------------------------------------
(* Properties of the dispatch, checked under SpecDispatch (continued)      *)

\* C14: a dispatch that fails (a TargetState guard, an unknown target id,
\* an unrecognized change type) aborts the WatchStream: it is closed, and
\* so takes no later message into any TargetState.
C14_FailedDispatchAborts ==
    (last.op = "onMessage" /\ last.threw # "none") => _closed

\* C22 as stated: a targetChange whose transition fails its precondition
\* for one of the resolved targets fails, and no TargetState has been
\* changed by it.
C22_GuardFailureAllOrNothing ==
    (IsTargetChange /\ last.threw \in TargetStateErrors) =>
        _targets = last.pre

\* The positions in the map of the targets the last targetChange resolves
\* to, in the order of the loop: the listed ones in list order, or every
\* registered target in registration order.
ResolvedPositions ==
    IF Len(ListedIds) = 0
    THEN [i \in 1 .. Len(last.pre) |-> i]
    ELSE [i \in 1 .. Len(ListedIds) |-> MapGet(last.pre, ListedIds[i])]

\* The map `m' after the transition table was applied, one after the other,
\* to the first k of the positions R.
RECURSIVE WithPrefixApplied(_, _, _, _)
WithPrefixApplied(tc, R, k, m) ==
    IF k = 0 THEN m
    ELSE LET prev == WithPrefixApplied(tc, R, k - 1, m)
         IN  [prev EXCEPT ![R[k]].state =
                TableEffect(tc.targetChangeType, tc.resumeToken, @)]

\* C22: a targetChange of a recognized type, all of whose identifiers are
\* registered, fails when the precondition of its transition fails for one
\* of the resolved targets; the targets are taken in order, those before
\* the first one whose precondition fails have had the transition and keep
\* it, that one and the ones after it are as they were.
C22_GuardFailureKeepsPrefix ==
    (IsTargetChange
       /\ last.msg.targetChange.targetChangeType \in KnownTypes
       /\ \A id \in ListedSet : MapHas(last.pre, id)) =>
        LET tc == last.msg.targetChange
            R == ResolvedPositions
            event == EventOf(tc.targetChangeType)
            after(k) == WithPrefixApplied(tc, R, k, last.pre)
        IN  /\ (\E j \in 1 .. Len(R) :
                   ~TsPrecondition(event, last.pre[R[j]].state))
                  => last.threw \in TargetStateErrors
            /\ last.threw \in TargetStateErrors =>
                  \E k \in 1 .. Len(R) :
                     /\ \A j \in 1 .. k - 1 :
                           TsPrecondition(event, after(j - 1)[R[j]].state)
                     /\ ~TsPrecondition(event, after(k - 1)[R[k]].state)
                     /\ _targets = after(k - 1)

\* An ADD without target ids has failed on the second registered target,
\* which was added already, after it made the first one added.
C22_Witness ==
    /\ IsTargetChange
    /\ last.msg.targetChange.targetChangeType = "ADD"
    /\ Len(ListedIds) = 0
    /\ last.threw = ErrAlreadyAdded
    /\ Len(last.pre) = 2
    /\ ~last.pre[1].state._added
    /\ _targets[1].state._added
    /\ _targets[2] = last.pre[2]

\* C23: after any addTarget() calls and inbound messages, failed
\* dispatches included, every registered TargetState that is current is
\* added; a TargetState that addTarget() has just registered is not added,
\* not current and has no resume token.
C23_CurrentImpliesAdded ==
    /\ \A i \in 1 .. Len(_targets) :
          _targets[i].state._current => _targets[i].state._added
    /\ (last.op = "addTarget" /\ last.threw = "none") =>
          LET st == _targets[MapGet(_targets, last.targetId)].state
          IN  /\ ~st._added
              /\ ~st._current
              /\ st._resumeToken = Null

\* A dispatch has just failed after it changed a TargetState, with one
\* registered target current and another no longer added.
C23_Witness ==
    /\ last.op = "onMessage"
    /\ last.threw \in TargetStateErrors
    /\ _targets # last.pre
    /\ \E i \in 1 .. Len(_targets) : _targets[i].state._current
    /\ \E i \in 1 .. Len(_targets) :
          /\ ~_targets[i].state._added
          /\ _targets[i].state._resumeToken # Null

----------------------------------------------------------------------------
(* Properties of BloomFilter, checked under SpecBF                         *)

ValidPaddings == 0 .. 7

\* C16: construction succeeds if and only if the bitmap is empty with
\* padding 0 and hash count >= 0, or non-empty with padding in 0..7 and hash
\* count >= 1; otherwise no instance exists and the error names the padding
\* when the padding is invalid (also when the hash count is invalid too),
\* and the hash count when only the hash count is invalid.
C16_ConstructionValidity ==
    last.op = "new BloomFilter" =>
      LET len == Len(last.bits)
          padding == last.padding
          hashCount == last.hashCount
          valid == \/ (len = 0 /\ padding = 0 /\ hashCount >= 0)
                   \/ (len > 0 /\ padding \in ValidPaddings /\ hashCount >= 1)
          badPadding == \/ (len = 0 /\ padding # 0)
                        \/ (len > 0 /\ padding \notin ValidPaddings)
          badHashCount == hashCount < 0 \/ (len > 0 /\ hashCount = 0)
      IN  /\ (last.threw = NoBloomFilterError) <=> valid
          /\ bloomFilter.constructed <=> valid
          /\ badPadding => last.threw = InvalidPadding(padding)
          /\ (badHashCount /\ ~badPadding) =>
                last.threw = InvalidHashCount(hashCount)

\* A constructor call with an invalid padding and an invalid hash count
\* has thrown.
C16_Witness ==
    /\ last.op = "new BloomFilter"
    /\ Len(last.bits) > 0
    /\ last.padding = 8
    /\ last.hashCount = 0
    /\ last.threw.name = "InvalidPadding"
    /\ ~bloomFilter.constructed

\* C17: a constructed BloomFilter has bitCount = bits.length * 8 - padding
\* when the bitmap is non-empty and 0 when it is empty; a one-byte bitmap
\* has bitCount = 8 - padding, and a non-empty bitmap has bitCount >= 1.
C17_BitCount ==
    bloomFilter.constructed =>
      LET len == Len(bloomFilter.bits)
      IN  /\ len = 0 => bloomFilter.bitCount = 0
          /\ len > 0 =>
                /\ bloomFilter.bitCount = len * 8 - bloomFilter.padding
                /\ bloomFilter.bitCount >= 1
          /\ len = 1 => bloomFilter.bitCount = 8 - bloomFilter.padding

\* A one-byte filter with padding 7 has been constructed: one bit.
C17_Witness ==
    /\ last.op = "new BloomFilter"
    /\ bloomFilter.constructed
    /\ Len(bloomFilter.bits) = 1
    /\ bloomFilter.padding = 7
    /\ bloomFilter.bitCount = 1

\* C18: a BloomFilter with bitCount = 0 answers false to mightContain() for
\* every key.
C18_EmptyNeverContains ==
    (last.op = "mightContain" /\ bloomFilter.bitCount = 0) =>
        last.result = FALSE

\* mightContain() has answered on an empty filter that has hash count 0.
C18_Witness ==
    /\ last.op = "mightContain"
    /\ bloomFilter.constructed
    /\ bloomFilter.bitCount = 0
    /\ bloomFilter.hashCount = 0
    /\ ~last.result

AllBitsSet(bits) == \A k \in 1 .. Len(bits) : bits[k] = 255

\* C19: a BloomFilter with bitCount > 0 whose bits are all 1 answers true to
\* mightContain() for every key, whatever its hash (h1, h2): every probe
\* position lies in [0, bitCount).
C19_AllSetContainsAll ==
    ( /\ last.op = "mightContain"
      /\ bloomFilter.bitCount > 0
      /\ AllBitsSet(bloomFilter.bits) ) =>
        /\ last.result = TRUE
        /\ Len(last.probes) = bloomFilter.hashCount
        /\ \A k \in 1 .. Len(last.probes) :
              last.probes[k] \in 0 .. bloomFilter.bitCount - 1

\* mightContain() has answered true on a padded filter with every bit set,
\* for a hash whose sum h1 + i*h2 wraps and one whose wrapped sum is
\* negative.
C19_Witness ==
    /\ last.op = "mightContain"
    /\ bloomFilter.padding > 0
    /\ AllBitsSet(bloomFilter.bits)
    /\ last.result
    /\ \E i \in 0 .. bloomFilter.hashCount - 1 :
          last.h1 + i * last.h2 \notin HashValues
    /\ \E i \in 0 .. bloomFilter.hashCount - 1 :
          Wrap(last.h1 + i * last.h2) < 0

====
